---- MODULE Spec2Model ----
(***************************************************************************)
(* UART Debug Access Port driver (rfdonnelly/uart-dap).                    *)
(*                                                                         *)
(* Text is a sequence of one-character strings.  u32 values are naturals;  *)
(* the inputs are bounded so that every value stays below 2^31.            *)
(*                                                                         *)
(* Two variants of the driver's parser live in the repository:             *)
(*   src/src/lib.rs          (names as in the source)                      *)
(*   src/uart-dap/src/lib.rs (names with the suffix _ud)                   *)
(***************************************************************************)
EXTENDS Integers, Sequences, FiniteSets, TLC

(***************************************************************************)
(* Characters and strings                                                  *)
(***************************************************************************)

\* char::is_ascii_whitespace: space, tab, line feed, form feed, carriage return
IsWs(c) == c \in {" ", "\t", "\n", "\f", "\r"}

DecDigits == <<"0","1","2","3","4","5","6","7","8","9">>
HexDigitsLower == DecDigits \o <<"a","b","c","d","e","f">>
HexDigitsUpper == DecDigits \o <<"A","B","C","D","E","F">>

\* char::to_digit(radix): the digit's value, or -1 when c is no digit of the radix
ToDigit(c, radix) ==
    LET hit == {i \in 1..radix : HexDigitsLower[i] = c \/ HexDigitsUpper[i] = c}
    IN  IF hit = {} THEN -1 ELSE (CHOOSE i \in hit : TRUE) - 1

\* the sub-sequence s[a..b] (empty when a > b)
Slice(s, a, b) == IF a > b THEN <<>> ELSE SubSeq(s, a, b)

RECURSIVE Concat(_)
Concat(ss) == IF ss = <<>> THEN <<>> ELSE Head(ss) \o Concat(Tail(ss))

\* str::starts_with
StartsWith(s, p) == Len(s) >= Len(p) /\ SubSeq(s, 1, Len(p)) = p

\* the first index >= i of s that holds (want = TRUE) or does not hold
\* (want = FALSE) whitespace, Len(s) + 1 when there is none
RECURSIVE ScanWs(_, _, _)
ScanWs(s, i, want) ==
    IF i > Len(s) \/ IsWs(s[i]) = want THEN i ELSE ScanWs(s, i + 1, want)

\* the last index <= i of s that holds no whitespace, 0 when there is none
RECURSIVE ScanBackNonWs(_, _)
ScanBackNonWs(s, i) ==
    IF i < 1 \/ ~IsWs(s[i]) THEN i ELSE ScanBackNonWs(s, i - 1)

\* the first index >= i at which pat occurs in s, 0 when it does not; s is
\* searched 16 positions at a time
RECURSIVE Find(_, _, _)
Find(s, pat, i) ==
    IF i + Len(pat) - 1 > Len(s) THEN 0
    ELSE LET top  == Len(s) - Len(pat) + 1
             hi   == IF i + 15 < top THEN i + 15 ELSE top
             hits == {j \in i..hi : SubSeq(s, j, j + Len(pat) - 1) = pat}
         IN  IF hits = {} THEN Find(s, pat, hi + 1)
             ELSE CHOOSE j \in hits : \A k \in hits : j <= k

\* str::trim: both ends stripped of whitespace
Trim(s) == Slice(s, ScanWs(s, 1, FALSE), ScanBackNonWs(s, Len(s)))

\* slice::split(|b| b == sep): the pieces between separators; n separators
\* give n+1 pieces, the last one empty when s ends with the separator
RECURSIVE SplitOn(_, _)
SplitOn(s, sep) ==
    LET i == Find(s, <<sep>>, 1)
    IN  IF i = 0 THEN <<s>>
        ELSE <<Slice(s, 1, i - 1)>> \o SplitOn(Slice(s, i + 1, Len(s)), sep)

\* str::split_ascii_whitespace from index i on
RECURSIVE TokensFrom(_, _)
TokensFrom(s, i) ==
    LET lo == ScanWs(s, i, FALSE)
    IN  IF lo > Len(s) THEN <<>>
        ELSE LET end == ScanWs(s, lo, TRUE)
             IN  <<SubSeq(s, lo, end - 1)>> \o TokensFrom(s, end)

\* str::split_ascii_whitespace: the maximal runs of non-whitespace
SplitAsciiWhitespace(s) == TokensFrom(s, 1)

\* str::split_once(pat): the text before and after the first occurrence of
\* pat, or found = FALSE
SplitOnce(s, pat) ==
    LET i == Find(s, pat, 1)
    IN  IF i = 0 THEN [found |-> FALSE, before |-> <<>>, after |-> <<>>]
        ELSE [found  |-> TRUE,
              before |-> Slice(s, 1, i - 1),
              after  |-> Slice(s, i + Len(pat), Len(s))]

(***************************************************************************)
(* Integers: parsing and formatting                                        *)
(***************************************************************************)

\* the digits of s without leading zeros
RECURSIVE StripZeros(_)
StripZeros(s) == IF s # <<>> /\ Head(s) = "0" THEN StripZeros(Tail(s)) ELSE s

\* the value of a digit string in a radix
RECURSIVE DigitsValue(_, _)
DigitsValue(s, radix) ==
    IF s = <<>> THEN 0
    ELSE DigitsValue(SubSeq(s, 1, Len(s) - 1), radix) * radix + ToDigit(s[Len(s)], radix)

\* digit strings of equal length compared as numbers
RECURSIVE DigitsGreater(_, _)
DigitsGreater(a, b) ==
    IF a = <<>> THEN FALSE
    ELSE IF ToDigit(Head(a), 10) # ToDigit(Head(b), 10)
         THEN ToDigit(Head(a), 10) > ToDigit(Head(b), 10)
         ELSE DigitsGreater(Tail(a), Tail(b))

U32MaxDecimal == <<"4","2","9","4","9","6","7","2","9","5">>

\* whether a digit string (no leading zeros) exceeds u32::MAX
OverflowsU32(sig, radix) ==
    CASE radix = 16 -> Len(sig) > 8
      [] radix = 2  -> Len(sig) > 32
      [] OTHER      -> \/ Len(sig) > 10
                       \/ Len(sig) = 10 /\ DigitsGreater(sig, U32MaxDecimal)

\* u32::from_str_radix: an optional '+', then at least one digit of the radix;
\* an empty string, a bad digit or a value above u32::MAX is an error
FromStrRadix(s, radix) ==
    LET digits == IF s # <<>> /\ Head(s) = "+" THEN Tail(s) ELSE s
    IN  IF \/ digits = <<>>
           \/ \E i \in 1..Len(digits) : ToDigit(digits[i], radix) < 0
           \/ OverflowsU32(StripZeros(digits), radix)
        THEN [ok |-> FALSE, value |-> 0]
        ELSE [ok |-> TRUE, value |-> DigitsValue(StripZeros(digits), radix)]

\* a number mangled by a wrong radix or prefix rule
parse_based_int_mut(s) == FromStrRadix(s, 10)

\* parse_based_int: 0x/0X is base 16, 0b/0B is base 2, otherwise decimal
parse_based_int(s) ==
    IF StartsWith(s, <<"0","x">>) \/ StartsWith(s, <<"0","X">>)
    THEN FromStrRadix(Slice(s, 3, Len(s)), 16)
    ELSE IF StartsWith(s, <<"0","b">>) \/ StartsWith(s, <<"0","B">>)
    THEN FromStrRadix(Slice(s, 3, Len(s)), 2)
    ELSE FromStrRadix(s, 10)

\* the digits of n in a radix, lowercase, no leading zeros ("0" for 0)
RECURSIVE FormatRadix(_, _)
FormatRadix(n, radix) ==
    IF n < radix THEN <<HexDigitsLower[n + 1]>>
    ELSE FormatRadix(n \div radix, radix) \o <<HexDigitsLower[(n % radix) + 1]>>

\* {:#x}
FormatHex(n) == <<"0","x">> \o FormatRadix(n, 16)
\* {}
FormatDec(n) == FormatRadix(n, 10)

(***************************************************************************)
(* Bit operations on u32                                                   *)
(***************************************************************************)

\* a | b
RECURSIVE BitOr(_, _)
BitOr(a, b) ==
    IF a = 0 THEN b
    ELSE IF b = 0 THEN a
    ELSE (IF a % 2 = 1 \/ b % 2 = 1 THEN 1 ELSE 0) + 2 * BitOr(a \div 2, b \div 2)

\* x << s on u32, 0 <= s < 32: the bits shifted past bit 31 are lost
Shl32(x, s) == IF s = 0 THEN x ELSE (x % (2 ^ (32 - s))) * (2 ^ s)

(***************************************************************************)
(* Commands, events and their text                                         *)
(***************************************************************************)

MAX_BYTES_PER_LINE == 16
READ_DEFAULT_NBYTES == 16

\* let prompt = "DEBUG>"
Prompt == <<"D","E","B","U","G",">">>

ReadCmd(addr, nbytes) == [type |-> "Read", addr |-> addr, arg |-> nbytes]
WriteCmd(addr, data) == [type |-> "Write", addr |-> addr, arg |-> data]
ReadEvent(addr, data) == [type |-> "Read", addr |-> addr, data |-> data]
WriteEvent(addr, data) == [type |-> "Write", addr |-> addr, data |-> data]

NoCommand == [type |-> "None", addr |-> 0, arg |-> 0]

\* impl fmt::Display for LineEnding
LineEndingText(le) == IF le = "Lf" THEN <<"\n">> ELSE <<"\r", "\n">>

Mr == <<"m","r">>
Mw == <<"m","w">>
Kernel == <<"k","e","r","n","e","l">>

\* impl fmt::Display for Command:
\*   "mr kernel {addr:#x} {nbytes}"   "mw kernel {addr:#x} {data:#x}"
Format(c) ==
    IF c.type = "Read"
    THEN Mr \o <<" ">> \o Kernel \o <<" ">> \o FormatHex(c.addr) \o <<" ">> \o FormatDec(c.arg)
    ELSE Mw \o <<" ">> \o Kernel \o <<" ">> \o FormatHex(c.addr) \o <<" ">> \o FormatHex(c.arg)

None == [some |-> FALSE, command |-> NoCommand]
Some(c) == [some |-> TRUE, command |-> c]

\* Command::from_tokens
from_tokens(tokens) ==
    IF Len(tokens) = 4 /\ tokens[1] = Mr /\ tokens[2] = Kernel
    THEN LET addr == parse_based_int(tokens[3])
             nbytes == parse_based_int(tokens[4])
         IN  IF addr.ok /\ nbytes.ok THEN Some(ReadCmd(addr.value, nbytes.value)) ELSE None
    ELSE IF Len(tokens) = 3 /\ tokens[1] = Mr /\ tokens[2] = Kernel
    THEN LET addr == parse_based_int(tokens[3])
         IN  IF addr.ok THEN Some(ReadCmd(addr.value, READ_DEFAULT_NBYTES)) ELSE None
    ELSE IF Len(tokens) = 4 /\ tokens[1] = Mw /\ tokens[2] = Kernel
    THEN LET addr == parse_based_int(tokens[3])
             data == parse_based_int(tokens[4])
         IN  IF addr.ok /\ data.ok THEN Some(WriteCmd(addr.value, data.value)) ELSE None
    ELSE None

(***************************************************************************)
(* The response parser                                                     *)
(***************************************************************************)

\* enum BufferState
WaitForCommand == [tag |-> "WaitForCommand", command |-> NoCommand, lines |-> 0]
WaitForResponse(c) == [tag |-> "WaitForResponse", command |-> c, lines |-> 0]
\* src/uart-dap: WaitForResponse { command, lines }
WaitForResponse_ud(c, n) == [tag |-> "WaitForResponse", command |-> c, lines |-> n]

\* what one call of process_line did: how it returned, the state it returned
\* and the events it sent, in order
Returned(outcome, st, evs) == [outcome |-> outcome, state |-> st, events |-> evs]

\* the tokens of a byte segment parsed as hexadecimal u32
ReadBytes(segment) ==
    LET tokens == SplitAsciiWhitespace(segment)
    IN  [i \in 1..Len(tokens) |-> FromStrRadix(tokens[i], 16)]

\* chunks_exact(4): a short last chunk is dropped
NChunks_mut(n) == n \div 4

\* slice::chunks(4): the number of chunks, the last one may be short
NChunks(n) == (n + 3) \div 4

\* chunk k (0-based) of a sequence
Chunk(s, k) == SubSeq(s, 4 * k + 1, IF 4 * k + 4 < Len(s) THEN 4 * k + 4 ELSE Len(s))

\* fold(0u32, |dword, (idx, byte)| dword | (byte << (idx * 8))) over the
\* sequence of (idx, byte) pairs in iteration order
RECURSIVE FoldOr(_, _)
FoldOr(bytes, idxs) ==
    IF bytes = <<>> THEN 0
    ELSE BitOr(FoldOr(SubSeq(bytes, 1, Len(bytes) - 1), SubSeq(idxs, 1, Len(idxs) - 1)),
               Shl32(bytes[Len(bytes)], idxs[Len(idxs)] * 8))

\* src/src/lib.rs: dword_bytes.iter().rev().enumerate().fold(..): the last
\* byte of the chunk gets idx 0
Dword(chunk) == FoldOr(chunk, [j \in 1..Len(chunk) |-> Len(chunk) - j])

\* src/uart-dap: dword_bytes.iter().enumerate().fold(..): the first byte of
\* the chunk gets idx 0
Dword_ud(chunk) == FoldOr(chunk, [j \in 1..Len(chunk) |-> j - 1])

\* every word of the line at addr
ReadEvents_mut(addr, bytes) ==
    [k \in 1..NChunks(Len(bytes)) |-> ReadEvent(addr, Dword(Chunk(bytes, k - 1)))]

\* the Read events of one response line: word k of the line at addr + 4k
ReadEvents(addr, bytes) ==
    [k \in 1..NChunks(Len(bytes)) |-> ReadEvent(addr + (k - 1) * 4, Dword(Chunk(bytes, k - 1)))]

ReadEvents_ud(addr, bytes) ==
    [k \in 1..NChunks(Len(bytes)) |-> ReadEvent(addr + (k - 1) * 4, Dword_ud(Chunk(bytes, k - 1)))]

\* a Write event with the two numbers swapped
WriteEventOf_mut(command) == WriteEvent(command.arg, command.addr)

\* let event = Event::Write { addr, data }
WriteEventOf(command) == WriteEvent(command.addr, command.arg)

\* a response that goes on while nbytes >= 16
MoreLines_mut(nbytes) == nbytes >= MAX_BYTES_PER_LINE

\* if nbytes > MAX_BYTES_PER_LINE: the response goes on with another line
MoreLines(nbytes) == nbytes > MAX_BYTES_PER_LINE

\* src/src/lib.rs process_line, the WaitForCommand arm
ProcessCommandLine(state, line) ==
    LET tokens == SplitAsciiWhitespace(line)
    IN  IF tokens = <<>> THEN Returned("Ok", state, <<>>)
        ELSE IF tokens[1] = Prompt
        THEN LET parsed == from_tokens(Tail(tokens))
             IN  IF parsed.some
                 THEN IF parsed.command.type = "Write"
                      THEN Returned("Ok", state, <<WriteEventOf(parsed.command)>>)
                      ELSE Returned("Ok", WaitForResponse(parsed.command), <<>>)
                 ELSE Returned("Ok", state, <<>>)
        ELSE Returned("Ok", state, <<>>)

\* src/src/lib.rs process_line, the WaitForResponse arm: ": " is looked for
\* in the line, then " |" in what follows it
ProcessResponseLine(state, line) ==
    LET addr   == state.command.addr
        nbytes == state.command.arg
        first  == SplitOnce(line, <<":", " ">>)
        second == SplitOnce(first.after, <<" ", "|">>)
    IN  IF first.found /\ second.found
        THEN LET parsed == ReadBytes(second.before)
             IN  IF \E i \in 1..Len(parsed) : ~parsed[i].ok
                 THEN Returned("Err", state, <<>>)
                 ELSE LET bytes == [i \in 1..Len(parsed) |-> parsed[i].value]
                      IN  Returned("Ok",
                                   IF MoreLines(nbytes)
                                   THEN WaitForResponse(ReadCmd(addr + MAX_BYTES_PER_LINE,
                                                                nbytes - MAX_BYTES_PER_LINE))
                                   ELSE WaitForCommand,
                                   ReadEvents(addr, bytes))
        ELSE Returned("Ok", WaitForCommand, <<>>)

\* a parser that takes every line for a command line
process_line_mut(state, line) == ProcessCommandLine(state, line)

\* src/src/lib.rs process_line
process_line(state, line) ==
    IF state.tag = "WaitForCommand"
    THEN ProcessCommandLine(state, line)
    ELSE ProcessResponseLine(state, line)

\* the largest value of the u8 that counts the lines of a response
U8Max == 255

\* src/uart-dap div_ceil.  lhs + rhs - 1 is computed on u32: the inputs of
\* the model keep it below 2^32
div_ceil(lhs, rhs) == (lhs + rhs - 1) \div rhs

\* src/uart-dap process_line, the WaitForCommand arm.  tokens.split_at(1)
\* panics on an empty token list; try_into() of the line count into u8 fails
\* above 255
ProcessCommandLine_ud(state, line) ==
    LET tokens == SplitAsciiWhitespace(line)
    IN  IF tokens = <<>> THEN Returned("Panic", state, <<>>)
        ELSE IF tokens[1] = Prompt
        THEN LET parsed == from_tokens(Tail(tokens))
             IN  IF parsed.some
                 THEN IF parsed.command.type = "Write"
                      THEN Returned("Ok", state, <<WriteEventOf(parsed.command)>>)
                      ELSE LET lines == div_ceil(parsed.command.arg, MAX_BYTES_PER_LINE)
                           IN  IF lines > U8Max
                               THEN Returned("Err", state, <<>>)
                               ELSE Returned("Ok", WaitForResponse_ud(parsed.command, lines), <<>>)
                 ELSE Returned("Ok", state, <<>>)
        ELSE Returned("Ok", state, <<>>)

\* src/uart-dap process_line, the WaitForResponse arm: " |" is looked for in
\* the line, then ": " in what precedes it
ProcessResponseLine_ud(state, line) ==
    LET addr   == state.command.addr
        nbytes == state.command.arg
        first  == SplitOnce(line, <<" ", "|">>)
        second == SplitOnce(first.before, <<":", " ">>)
    IN  IF first.found /\ second.found
        THEN LET parsed == ReadBytes(second.after)
             IN  IF \E i \in 1..Len(parsed) : ~parsed[i].ok
                 THEN Returned("Err", state, <<>>)
                 ELSE LET bytes == [i \in 1..Len(parsed) |-> parsed[i].value]
                      IN  Returned("Ok",
                                   IF state.lines > 1
                                   THEN WaitForResponse_ud(ReadCmd(addr + MAX_BYTES_PER_LINE,
                                                                   nbytes - MAX_BYTES_PER_LINE),
                                                           state.lines - 1)
                                   ELSE WaitForCommand,
                                   ReadEvents_ud(addr, bytes))
        ELSE Returned("Ok", WaitForCommand, <<>>)

\* src/uart-dap process_line
process_line_ud(state, line) ==
    IF state.tag = "WaitForCommand"
    THEN ProcessCommandLine_ud(state, line)
    ELSE ProcessResponseLine_ud(state, line)

(***************************************************************************)
(* Inbound lines                                                           *)
(***************************************************************************)

LineBanner ==
    <<"B","o","o","t","i","n","g"," ","V","x","W","o","r","k","s",".",".",".">>
LineReady ==
    <<"[","t","i","m","e","s","t","a","m","p","]"," ","r","e","a","d","y">>
LinePromptOnly ==
    <<"D","E","B","U","G",">">>
LineGarbage ==
    <<"D","E","B","U","G",">"," ","g","a","r","b","a","g","e"," ","w","i","t","h","o","u",
      "t"," ","d","e","l","i","m","i","t","e","r","s">>
LineShortWrite ==
    <<"D","E","B","U","G",">"," ","m","w"," ","k","e","r","n","e","l"," ","0","x","1","0">>
LineBadAddr ==
    <<"D","E","B","U","G",">"," ","m","w"," ","k","e","r","n","e","l"," ","z","z"," ","0",
      "x","1">>
LineGlued ==
    <<"D","E","B","U","G",">","m","w"," ","k","e","r","n","e","l"," ","0","x","1","0"," ",
      "0","x","1">>
LineUnknownVerb ==
    <<"D","E","B","U","G",">"," ","m","d"," ","k","e","r","n","e","l"," ","0","x","1","0",
      " ","0","x","1">>
LineNoGutter ==
    <<"1","0",":"," ","0","1"," ","0","2"," ","0","3"," ","0","4">>
LineNoColon ==
    <<"0","1"," ","0","2"," ","0","3"," ","0","4"," ","|","-","-","-","-","|">>
LineBadHex ==
    <<"1","0",":"," ","0","1"," ","0","g"," ","0","3"," ","0","4"," ","|","-","-","-","-",
      "|">>
LineGutterColon ==
    <<"0","1"," ","0","2"," ","|","x",":"," ","0","b"," ","|">>
LineSignedToken ==
    <<"1","0",":"," ","0","1"," ","+","2"," ","0","3"," ","0","4"," ","|","-","-","-","-",
      "|">>
LineWideToken ==
    <<"1","0",":"," ","0","1"," ","1","f","f"," ","0","3"," ","0","4"," ","|","-","-","-",
      "-","|">>
TimestampText ==
    <<"[","2","0","2","2","0","2","0","4","T","0","4","4","3","1","6","]">>

\* a byte as two lowercase hex digits
Byte2(b) == <<HexDigitsLower[(b \div 16) + 1], HexDigitsLower[(b % 16) + 1]>>

\* column i (1..16) of a hex dump: the byte or blanks, then the separator
DumpColumn(bytes, i) ==
    (IF i <= Len(bytes) THEN Byte2(bytes[i]) ELSE <<" ", " ">>)
    \o (IF i = 16 THEN <<>> ELSE IF i % 4 = 0 THEN <<" ", " ">> ELSE <<" ">>)

\* the target's hex-dump line for up to 16 bytes at addr:
\*   "600df00d: 5a 5a 5a 5a  01 02 03 04  05 06 07 08  09 0a 0b 0c |-------|"
DumpLine(addr, bytes) ==
    FormatRadix(addr, 16) \o <<":", " ">>
    \o Concat([i \in 1..16 |-> DumpColumn(bytes, i)])
    \o <<" ", "|", "-", "-", "-", "-", "-", "-", "-", "|">>

\* what precedes the command text on an echo line
EchoPrefix(kind) ==
    CASE kind = "prompt"    -> Prompt \o <<" ">>
      [] kind = "bare"      -> <<>>
      [] kind = "timestamp" -> TimestampText \o <<" ">> \o Prompt \o <<" ">>

EchoPrefixKinds == {"prompt", "bare", "timestamp"}

(***************************************************************************)
(* State                                                                   *)
(***************************************************************************)

VARIABLES
    state,      \* serial_combiner: the parser state (BufferState)
    variant,    \* parser runs: which process_line is run, "root" or "ud"
    last,       \* parser runs: the last call of process_line, its input and result
    cycle,      \* parser runs: the read being answered and what it has produced
    nfed,       \* parser runs: the number of lines fed so far
    rt,         \* parser runs: a command and what its framed text parses to
    aborted,    \* parser runs: the call before the last one gave up a response
    order       \* parser runs: the Read events of the response in progress

VARIABLES
    echo,           \* UartDap.echo: "Local" or "Remote"
    line_ending,    \* UartDap.line_ending: "Lf" or "CrLf"
    result,         \* what run has returned: "running", "Ok" or "Err"
    app,            \* app_command channel: its queue, and whether the sender is dropped
    submitted,      \* the commands the application has sent, in order
    splitter,       \* command_splitter: where it is, the command it holds, its sends
    command_echo,   \* the channel command_splitter -> serial_combiner
    command_serial, \* the channel command_splitter -> serial_transmitter
    transmitter,    \* serial_transmitter: where it is, and the bytes left to write
    wire,           \* the bytes written to the serial port
    line_buffer,    \* serial_combiner: line_buffer
    combiner,       \* serial_combiner: the lines and events it has yet to handle
    events,         \* serial_event channel
    delivered,      \* the events the application has received, in order
    target          \* the target: chunks it has sent, bytes of the wire it has echoed

VARIABLES
    inbound,    \* assembler runs: the bytes put into line_buffer so far
    handed,     \* assembler runs: the lines handed to process_line so far
    turn,       \* assembler runs: the last iteration of the loop
    nturns      \* assembler runs: the number of iterations so far

pvars == <<variant, last, cycle, nfed, rt, aborted, order>>
svars == <<echo, line_ending, result, app, submitted, splitter, command_echo,
           command_serial, transmitter, wire, line_buffer, combiner, events,
           delivered, target>>
avars == <<inbound, handed, turn, nturns>>
vars == <<state, pvars, svars, avars>>

\* the session right after run has started its three tasks
SessionStart ==
    /\ result = "running"
    /\ app = [queue |-> <<>>, closed |-> FALSE]
    /\ submitted = <<>>
    /\ splitter = [pc |-> "recv", command |-> NoCommand, log |-> <<>>]
    /\ command_echo = <<>>
    /\ command_serial = <<>>
    /\ transmitter = [pc |-> "recv", rest |-> <<>>]
    /\ wire = <<>>
    /\ line_buffer = <<>>
    /\ combiner = [lines |-> <<>>, pending |-> <<>>, next |-> WaitForCommand, rest |-> <<>>]
    /\ events = <<>>
    /\ delivered = <<>>
    /\ target = [reads |-> 0, echoed |-> 0, up |-> FALSE, taken |-> 0, served |-> 0,
                 out |-> <<>>]

\* the assembler before its first iteration
AssemblerStart ==
    /\ inbound = <<>>
    /\ handed = <<>>
    /\ turn = [pre |-> WaitForCommand, segments |-> <<>>, outcome |-> "Ok", events |-> <<>>,
               source |-> "none", before |-> <<>>, lines |-> <<>>]
    /\ nturns = 0

NoRoundTrip == [done |-> FALSE, cmd |-> NoCommand, first |-> <<>>, parsed |-> None]

(***************************************************************************)
(* Parser runs: lines are handed to process_line one at a time, as         *)
(* serial_combiner does with each trimmed line                             *)
(***************************************************************************)

\* the number of lines fed in one run
MaxLines == 4

ParserNBytes == {0, 1, 4, 5, 16, 17, 20, 32, 33, 4080, 4081}
ParserCmds ==
    {ReadCmd(1611526157, n) : n \in ParserNBytes}
    \cup {ReadCmd(16, 20), WriteCmd(1611526157, 1515870810), WriteCmd(16, 0)}

\* commands typed in other forms than Display prints, with what they mean
TypedShortRead == Mr \o <<" ">> \o Kernel \o <<" ", "0", "x", "C", "0", "1", "0">>
TypedDecimalWrite == Mw \o <<" ">> \o Kernel \o <<" ", "1", "6", " ", "0", "b", "1", "0", "1">>
TypedUpperWrite == Mw \o <<" ">> \o Kernel \o <<" ", "0", "X", "1", "F", " ", "+", "7">>
TypedCmds ==
    { [text |-> TypedShortRead, cmd |-> ReadCmd(49168, READ_DEFAULT_NBYTES)],
      [text |-> TypedDecimalWrite, cmd |-> WriteCmd(16, 5)],
      [text |-> TypedUpperWrite, cmd |-> WriteCmd(31, 7)] }

\* the bytes a dump line carries: the first n of a pattern
BytePatterns ==
    << <<90, 90, 90, 90, 1, 2, 3, 4, 5, 6, 7, 8, 9, 10, 11, 12>>,
       <<13, 14, 15, 16, 127, 255, 128, 0, 0, 0, 0, 1, 18, 52, 86, 120>> >>
DumpSizes == {0, 1, 3, 4, 5, 15, 16}
ShortDumpSizes == {4, 7, 16}

OtherLines ==
    { <<>>, LineBanner, LineReady, LinePromptOnly, LineGarbage, LineShortWrite,
      LineBadAddr, LineGlued, LineUnknownVerb, LineNoGutter, LineNoColon,
      LineBadHex, LineWideToken, LineGutterColon, LineSignedToken }

\* a line to feed: what it is made of, and its text
EchoInput(prefix, cmd, text) ==
    [kind |-> "echo", prefix |-> prefix, cmd |-> cmd, bytes |-> <<>>, text |-> text]
DumpInput(bytes, text) ==
    [kind |-> "dump", prefix |-> "", cmd |-> NoCommand, bytes |-> bytes, text |-> text]
OtherInput(text) ==
    [kind |-> "other", prefix |-> "", cmd |-> NoCommand, bytes |-> <<>>, text |-> text]
NoInput == [kind |-> "none", prefix |-> "", cmd |-> NoCommand, bytes |-> <<>>, text |-> <<>>]

\* command lines: after the prompt, after nothing or after a timestamp, the
\* command as Display prints it
EchoInputs ==
    {EchoInput("prompt", c, EchoPrefix("prompt") \o Format(c)) : c \in ParserCmds}
    \cup {EchoInput(k, c, EchoPrefix(k) \o Format(c)) :
            k \in {"bare", "timestamp"},
            c \in {ReadCmd(16, 20), WriteCmd(16, 0)}}

\* command lines as a user types them
TypedInputs ==
    {EchoInput("prompt", t.cmd, EchoPrefix("prompt") \o t.text) : t \in TypedCmds}

\* hex-dump lines of the target
DumpInputs ==
    {DumpInput(SubSeq(BytePatterns[1], 1, n), DumpLine(1611526157, SubSeq(BytePatterns[1], 1, n))) :
        n \in DumpSizes}
    \cup {DumpInput(SubSeq(BytePatterns[2], 1, n), DumpLine(16, SubSeq(BytePatterns[2], 1, n))) :
        n \in ShortDumpSizes}

OtherInputs == {OtherInput(l) : l \in OtherLines}

NoCycle ==
    [phase |-> "none", cmd |-> NoCommand, fed |-> 0, wf |-> TRUE, exact |-> TRUE,
     events |-> <<>>]

\* the number of bytes line k (0-based) of the response to a read of n bytes carries
ExpectedOnLine(n, k) ==
    IF n <= MAX_BYTES_PER_LINE * k THEN 0
    ELSE IF n - MAX_BYTES_PER_LINE * k > MAX_BYTES_PER_LINE THEN MAX_BYTES_PER_LINE
    ELSE n - MAX_BYTES_PER_LINE * k

\* the read in progress after a call of process_line: opened when a command
\* line moves the parser to WaitForResponse, fed while the parser stays
\* there, forgotten one line after the parser has left.  wf: every line so
\* far was a hex-dump line; exact: each carried the bytes the read asks of
\* it; events: the events of the lines so far, kept while exact
NextCycle(pre, input, r) ==
    IF r.outcome = "Ok" /\ pre.tag = "WaitForCommand" /\ r.state.tag = "WaitForResponse"
    THEN [NoCycle EXCEPT !.phase = "open", !.cmd = r.state.command]
    ELSE IF cycle.phase = "open"
    THEN LET exact == /\ cycle.exact
                      /\ input.kind = "dump"
                      /\ Len(input.bytes) = ExpectedOnLine(cycle.cmd.arg, cycle.fed)
         IN  [cycle EXCEPT
                !.phase  = IF r.outcome = "Ok" /\ r.state.tag = "WaitForResponse"
                           THEN "open" ELSE "closed",
                !.fed    = @ + 1,
                !.wf     = @ /\ input.kind = "dump",
                !.exact  = exact,
                !.events = IF exact THEN @ \o r.events ELSE <<>>]
    ELSE NoCycle

\* the line has no " |", or no ": " before its first " |"
Unframed(line) ==
    LET gutter == SplitOnce(line, <<" ", "|">>)
    IN  ~gutter.found \/ ~SplitOnce(gutter.before, <<":", " ">>).found

\* the last call was made in WaitForResponse with a line that is not framed
\* as a response
GaveUp == last.pre.tag = "WaitForResponse" /\ Unframed(last.input.text)

NoOrder == [hi |-> -1, asc |-> TRUE]

\* the events evs follow, strictly ascending by address, events that went
\* up to address hi
RECURSIVE Ascends(_, _)
Ascends(hi, evs) ==
    evs = <<>> \/ (Head(evs).addr > hi /\ Ascends(Head(evs).addr, Tail(evs)))

\* the order of the Read events since the read was matched: the highest
\* address so far, and whether every event came above all earlier ones
NextOrder(pre, r) ==
    IF pre.tag = "WaitForCommand" THEN NoOrder
    ELSE [hi  |-> IF r.events = <<>> THEN order.hi ELSE r.events[Len(r.events)].addr,
          asc |-> order.asc /\ Ascends(order.hi, r.events)]

ProcessLineOf(v, st, line) ==
    IF v = "root" THEN process_line(st, line) ELSE process_line_ud(st, line)

NoCall == [pre |-> WaitForCommand, input |-> NoInput, outcome |-> "Ok", events |-> <<>>]

\* one line handed to process_line
Feed(input) ==
    /\ nfed < MaxLines
    /\ last = NoCall
    /\ ~rt.done
    /\ LET r == ProcessLineOf(variant, state, input.text)
       IN  /\ state' = r.state
           /\ last' = [pre |-> state, input |-> input, outcome |-> r.outcome,
                       events |-> r.events]
           /\ cycle' = NextCycle(state, input, r)
           /\ order' = NextOrder(state, r)
    /\ nfed' = nfed + 1
    /\ UNCHANGED <<variant, rt, aborted, svars, avars>>

FeedEcho == \E input \in EchoInputs : Feed(input)

FeedTyped == \E input \in TypedInputs : Feed(input)

FeedDump == \E input \in DumpInputs : Feed(input)

FeedOther == \E input \in OtherInputs : Feed(input)

\* the call has returned Ok and serial_combiner goes on to the next line; a
\* failed call ends the session
NextLine ==
    /\ last # NoCall
    /\ last.outcome = "Ok"
    /\ last' = NoCall
    /\ aborted' = GaveUp
    /\ UNCHANGED <<state, variant, cycle, nfed, rt, order, svars, avars>>

RoundTripValues == {0, 1, 9, 10, 15, 16, 255, 256, 4095, 65536, 1611526157, 2147483647}
RoundTripCmds ==
    {ReadCmd(a, n) : a \in RoundTripValues, n \in RoundTripValues}
    \cup {WriteCmd(a, d) : a \in RoundTripValues, d \in RoundTripValues}

\* "DEBUG> " + format(c) + line ending, tokenized as process_line tokenizes a
\* line and matched as it matches the tokens after the first
FrameRoundTrip ==
    /\ nfed = 0
    /\ ~rt.done
    /\ \E c \in RoundTripCmds, le \in {"Lf", "CrLf"} :
        LET tokens == SplitAsciiWhitespace(Prompt \o <<" ">> \o Format(c) \o LineEndingText(le))
        IN  rt' = [done |-> TRUE, cmd |-> c, first |-> Head(tokens),
                   parsed |-> from_tokens(Tail(tokens))]
    /\ UNCHANGED <<state, variant, last, cycle, nfed, aborted, order, svars, avars>>

InitParser ==
    /\ state = WaitForCommand
    /\ variant \in {"root", "ud"}
    /\ last = NoCall
    /\ cycle = NoCycle
    /\ nfed = 0
    /\ rt = NoRoundTrip
    /\ aborted = FALSE
    /\ order = NoOrder
    /\ echo = "Local"
    /\ line_ending = "Lf"
    /\ SessionStart
    /\ AssemblerStart

NextParser == FeedEcho \/ FeedTyped \/ FeedDump \/ FeedOther \/ NextLine \/ FrameRoundTrip

SpecParser == InitParser /\ [][NextParser]_vars

(***************************************************************************)
(* The session: UartDap::run and its three tasks (src/src/lib.rs)          *)
(***************************************************************************)

\* mpsc::channel(1) of command_echo and command_serial
ChannelCapacity == 1
\* mpsc::channel(1) of the application's command and event channels
AppCapacity == 1
EventCapacity == 1

\* the number of commands the application sends
MaxSubmit == 2
\* the number of chunks the target sends of its own
MaxReads == 2

AppCmds == {WriteCmd(16, 5), ReadCmd(16, 4)}

\* what the target sends: its prompt, a line break and its prompt, a
\* hex-dump line
PromptChunk == Prompt \o <<" ">>
NewPromptChunk == <<"\r", "\n">> \o Prompt \o <<" ">>
DumpChunk == DumpLine(16, <<1, 2, 3, 4>>) \o <<"\r", "\n">>
TargetChunks == {PromptChunk, NewPromptChunk, DumpChunk}

\* the configurations run is started with: that of the integration tests,
\* and the other value of each option
Configs == {<<"Local", "Lf">>, <<"Remote", "CrLf">>}

\* tasks that go on after run has returned
Running_mut == TRUE

\* select! in run has not completed yet: the three tasks are polled
Running == result = "running"

\* the application sends a command
AppSubmit ==
    /\ Running
    /\ ~app.closed
    /\ Len(app.queue) < AppCapacity
    /\ Len(submitted) < MaxSubmit
    /\ \E c \in AppCmds :
        /\ app' = [app EXCEPT !.queue = Append(@, c)]
        /\ submitted' = Append(submitted, c)
    /\ UNCHANGED <<state, pvars, avars, echo, line_ending, result, splitter, command_echo,
                   command_serial, transmitter, wire, line_buffer, combiner, events,
                   delivered, target>>

\* the application drops its sender
AppClose ==
    /\ Running
    /\ ~app.closed
    /\ app' = [app EXCEPT !.closed = TRUE]
    /\ UNCHANGED <<state, pvars, avars, echo, line_ending, result, submitted, splitter,
                   command_echo, command_serial, transmitter, wire, line_buffer,
                   combiner, events, delivered, target>>

\* the application takes an event
EventRecv ==
    /\ events # <<>>
    /\ delivered' = Append(delivered, Head(events))
    /\ events' = Tail(events)
    /\ UNCHANGED <<state, pvars, avars, echo, line_ending, result, app, submitted, splitter,
                   command_echo, command_serial, transmitter, wire, line_buffer,
                   combiner, target>>

\* a splitter that sends the echo whatever the echo mode
FirstQueue_mut(e) == "echo"

\* command_splitter: the queue a received command is sent on first
FirstQueue(e) == IF e = "Local" THEN "echo" ELSE "serial"

\* a send of command_splitter, as kept in splitter.log
Sent(queue, command) == [to |-> queue, command |-> command]

\* command_splitter: app_command_rx.recv() yields a command
SplitterRecv ==
    /\ Running
    /\ splitter.pc = "recv"
    /\ app.queue # <<>>
    /\ splitter' = [splitter EXCEPT !.pc = FirstQueue(echo), !.command = Head(app.queue)]
    /\ app' = [app EXCEPT !.queue = Tail(@)]
    /\ UNCHANGED <<state, pvars, avars, echo, line_ending, result, submitted, command_echo,
                   command_serial, transmitter, wire, line_buffer, combiner, events,
                   delivered, target>>

\* a receiver that is never told its channel was closed
InputClosed_mut == FALSE

\* app_command_rx.recv() yields None: every sender was dropped and the
\* channel is empty
InputClosed == app.queue = <<>> /\ app.closed

\* command_splitter: app_command_rx.recv() yields None, the task returns
\* Ok(()) and select! in run drops the other two tasks
SplitterDone ==
    /\ Running
    /\ splitter.pc = "recv"
    /\ InputClosed
    /\ result' = "Ok"
    /\ UNCHANGED <<state, pvars, avars, echo, line_ending, app, submitted, splitter,
                   command_echo, command_serial, transmitter, wire, line_buffer,
                   combiner, events, delivered, target>>

\* command_splitter: command_echo_tx.send(command)
SplitterSendEcho ==
    /\ Running
    /\ splitter.pc = "echo"
    /\ Len(command_echo) < ChannelCapacity
    /\ command_echo' = Append(command_echo, splitter.command)
    /\ splitter' = [splitter EXCEPT !.pc = "serial",
                                    !.log = Append(@, Sent("echo", splitter.command))]
    /\ UNCHANGED <<state, pvars, avars, echo, line_ending, result, app, submitted,
                   command_serial, transmitter, wire, line_buffer, combiner, events,
                   delivered, target>>

\* command_splitter: command_serial_tx.send(command)
SplitterSendSerial ==
    /\ Running
    /\ splitter.pc = "serial"
    /\ Len(command_serial) < ChannelCapacity
    /\ command_serial' = Append(command_serial, splitter.command)
    /\ splitter' = [pc |-> "recv", command |-> NoCommand,
                    log |-> Append(splitter.log, Sent("serial", splitter.command))]
    /\ UNCHANGED <<state, pvars, avars, echo, line_ending, result, app, submitted,
                   command_echo, transmitter, wire, line_buffer, combiner, events,
                   delivered, target>>

\* serial_transmitter: command_serial_rx.recv() yields a command
TxRecv ==
    /\ Running
    /\ transmitter.pc = "recv"
    /\ command_serial # <<>>
    /\ transmitter' = [pc |-> "write_cmd", rest |-> Format(Head(command_serial))]
    /\ command_serial' = Tail(command_serial)
    /\ UNCHANGED <<state, pvars, avars, echo, line_ending, result, app, submitted, splitter,
                   command_echo, wire, line_buffer, combiner, events, delivered, target>>

\* a transmitter that goes back to recv without writing the line ending
AfterCommand_mut(le) == [pc |-> "recv", rest |-> <<>>]

\* serial_transmitter: the command is written, write_all of the line ending
\* comes next
AfterCommand(le) == [pc |-> "write_le", rest |-> LineEndingText(le)]

\* the sizes one poll_write of write_all may take of the bytes left
WriteSizes(rest) == {Len(rest)} \cup (IF Len(rest) > 1 THEN {Len(rest) \div 2} ELSE {})

\* serial_transmitter: write_all puts bytes on the wire
TxWrite ==
    /\ Running
    /\ transmitter.pc # "recv"
    /\ \E k \in WriteSizes(transmitter.rest) :
        /\ wire' = wire \o SubSeq(transmitter.rest, 1, k)
        /\ transmitter' =
              IF k < Len(transmitter.rest)
              THEN [transmitter EXCEPT !.rest = SubSeq(@, k + 1, Len(@))]
              ELSE IF transmitter.pc = "write_cmd"
              THEN AfterCommand(line_ending)
              ELSE [pc |-> "recv", rest |-> <<>>]
    /\ UNCHANGED <<state, pvars, avars, echo, line_ending, result, app, submitted, splitter,
                   command_echo, command_serial, line_buffer, combiner, events,
                   delivered, target>>

\* serial_transmitter: write_all fails, the task returns "could not send"
TxFail ==
    /\ Running
    /\ transmitter.pc # "recv"
    /\ result' = "Err"
    /\ UNCHANGED <<state, pvars, avars, echo, line_ending, app, submitted, splitter,
                   command_echo, command_serial, transmitter, wire, line_buffer,
                   combiner, events, delivered, target>>

\* a serial_combiner that never polls its select!
Selecting_mut == FALSE

\* serial_combiner waits in its select!
Selecting == combiner.lines = <<>> /\ combiner.pending = <<>>

\* the non-empty ones of a sequence of lines
RECURSIVE NonEmpty(_)
NonEmpty(ls) ==
    IF ls = <<>> THEN <<>>
    ELSE IF Head(ls) = <<>> THEN NonEmpty(Tail(ls))
    ELSE <<Head(ls)>> \o NonEmpty(Tail(ls))

\* an assembler that hands over whatever it holds, terminated or not
Arrived_mut(buf) == [lines |-> <<Trim(buf)>>, rest |-> <<>>]

\* serial_combiner, after data has arrived: the lines to process and what
\* the buffer holds after them
Arrived(buf) ==
    LET pieces == SplitOn(buf, "\n")
        n == Len(pieces)
    IN  IF buf # <<>> /\ buf[Len(buf)] = "\n"
        THEN [lines |-> NonEmpty([i \in 1..n |-> Trim(pieces[i])]), rest |-> <<>>]
        ELSE IF n > 1
        THEN [lines |-> [i \in 1..(n - 1) |-> Trim(pieces[i])], rest |-> pieces[n]]
        ELSE [lines |-> <<>>, rest |-> buf]

\* serial_combiner: the select! has put data into line_buffer
Arrive(buf) ==
    LET a == Arrived(buf)
    IN  /\ combiner' = [lines |-> a.lines, pending |-> <<>>, next |-> state, rest |-> a.rest]
        /\ line_buffer' = IF a.lines = <<>> THEN a.rest ELSE buf

\* an echo that brings its own prompt
EchoText_mut(command, le) == Prompt \o <<" ">> \o Format(command) \o LineEndingText(le)

\* serial_combiner: format!("{}{}", command, line_ending)
EchoText(command, le) == Format(command) \o LineEndingText(le)

\* serial_combiner: command_echo_rx.recv() yields a command
CombRecvEcho ==
    /\ Running
    /\ Selecting
    /\ command_echo # <<>>
    /\ Arrive(line_buffer \o EchoText(Head(command_echo), line_ending))
    /\ command_echo' = Tail(command_echo)
    /\ UNCHANGED <<state, pvars, avars, echo, line_ending, result, app, submitted, splitter,
                   command_serial, transmitter, wire, events, delivered, target>>

\* serial_combiner: read_buf yields bytes the target sends of its own
CombRead ==
    /\ Running
    /\ Selecting
    /\ target.reads < MaxReads
    /\ \E chunk \in TargetChunks : Arrive(line_buffer \o chunk)
    /\ target' = [target EXCEPT !.reads = @ + 1]
    /\ UNCHANGED <<state, pvars, avars, echo, line_ending, result, app, submitted, splitter,
                   command_echo, command_serial, transmitter, wire, events, delivered>>

\* serial_combiner: read_buf yields the target's echo of what it has
\* received since its last echo
CombReadEcho ==
    /\ Running
    /\ Selecting
    /\ echo = "Remote"
    /\ target.echoed < Len(wire)
    /\ Arrive(line_buffer \o SubSeq(wire, target.echoed + 1, Len(wire)))
    /\ target' = [target EXCEPT !.echoed = Len(wire)]
    /\ UNCHANGED <<state, pvars, avars, echo, line_ending, result, app, submitted, splitter,
                   command_echo, command_serial, transmitter, wire, events, delivered>>

\* serial_combiner: read_buf fails, the task returns an error
CombReadErr ==
    /\ Running
    /\ Selecting
    /\ result' = "Err"
    /\ UNCHANGED <<state, pvars, avars, echo, line_ending, app, submitted, splitter,
                   command_echo, command_serial, transmitter, wire, line_buffer,
                   combiner, events, delivered, target>>

\* serial_combiner: process_line is called with the next line; it fails, or
\* has events to send, or returns the next state at once
CombLine ==
    /\ Running
    /\ combiner.lines # <<>>
    /\ combiner.pending = <<>>
    /\ LET r == process_line(state, Head(combiner.lines))
           more == Tail(combiner.lines)
       IN  IF r.outcome # "Ok"
           THEN /\ result' = "Err"
                /\ UNCHANGED <<state, combiner, line_buffer>>
           ELSE /\ combiner' = [combiner EXCEPT !.lines = more, !.pending = r.events,
                                                !.next = r.state]
                /\ state' = IF r.events = <<>> THEN r.state ELSE state
                /\ line_buffer' = IF more = <<>> /\ r.events = <<>>
                                  THEN combiner.rest ELSE line_buffer
                /\ UNCHANGED result
    /\ UNCHANGED <<pvars, avars, echo, line_ending, app, submitted, splitter, command_echo,
                   command_serial, transmitter, wire, events, delivered, target>>

\* process_line: event_tx.send(event); after the last event of the line
\* process_line returns the next state
CombSend ==
    /\ Running
    /\ combiner.pending # <<>>
    /\ Len(events) < EventCapacity
    /\ events' = Append(events, Head(combiner.pending))
    /\ LET more == Tail(combiner.pending)
       IN  /\ combiner' = [combiner EXCEPT !.pending = more]
           /\ state' = IF more = <<>> THEN combiner.next ELSE state
           /\ line_buffer' = IF more = <<>> /\ combiner.lines = <<>>
                             THEN combiner.rest ELSE line_buffer
    /\ UNCHANGED <<pvars, avars, echo, line_ending, result, app, submitted, splitter,
                   command_echo, command_serial, transmitter, wire, delivered, target>>

Init ==
    /\ state = WaitForCommand
    /\ variant = "root"
    /\ last = NoCall
    /\ cycle = NoCycle
    /\ nfed = 0
    /\ rt = NoRoundTrip
    /\ aborted = FALSE
    /\ order = NoOrder
    /\ \E c \in Configs : echo = c[1] /\ line_ending = c[2]
    /\ SessionStart
    /\ AssemblerStart

Next ==
    \/ AppSubmit \/ AppClose \/ EventRecv
    \/ SplitterRecv \/ SplitterDone \/ SplitterSendEcho \/ SplitterSendSerial
    \/ TxRecv \/ TxWrite \/ TxFail
    \/ CombRecvEcho \/ CombRead \/ CombReadEcho \/ CombReadErr \/ CombLine \/ CombSend

Spec == Init /\ [][Next]_vars

(***************************************************************************)
(* The session in which no component fails, under the scheduling of the    *)
(* tokio runtime: a task that can make progress is polled again, the       *)
(* serial port accepts what is written to it, and the application keeps    *)
(* taking the events it is sent                                            *)
(***************************************************************************)

NextLive ==
    \/ AppSubmit \/ AppClose \/ EventRecv
    \/ SplitterRecv \/ SplitterDone \/ SplitterSendEcho \/ SplitterSendSerial
    \/ TxRecv \/ TxWrite
    \/ CombRecvEcho \/ CombRead \/ CombReadEcho \/ CombLine \/ CombSend

\* serial_combiner is about to call process_line: what enables CombLine
CombLineReady == Running /\ combiner.lines # <<>> /\ combiner.pending = <<>>

\* serial_combiner waits in its select! and a command is in the echo
\* channel: what enables CombRecvEcho
EchoReady == Running /\ Selecting /\ command_echo # <<>>

\* weak fairness of every step of the three tasks and of the receiver of
\* events; for CombLine and CombRecvEcho, whose steps always leave their
\* guard, it is stated by the guard: a task that is about to call
\* process_line does call it, and select! does take a command that waits
Fairness ==
    /\ WF_vars(SplitterRecv) /\ WF_vars(SplitterDone)
    /\ WF_vars(SplitterSendEcho) /\ WF_vars(SplitterSendSerial)
    /\ WF_vars(TxRecv) /\ WF_vars(TxWrite)
    /\ WF_vars(CombSend)
    /\ []<>(~CombLineReady) /\ []<>(~EchoReady)
    /\ WF_vars(EventRecv)

SpecLive == Init /\ [][NextLive]_vars /\ Fairness

(***************************************************************************)
(* The assembler alone: one iteration of the loop of serial_combiner after *)
(* the other, in both crates, with an event channel that always has room   *)
(***************************************************************************)

\* the number of iterations of the loop
MaxTurns == 4

ReadEchoChunk == Format(ReadCmd(16, 4)) \o <<"\r", "\n">>
WriteEchoChunk == Format(WriteCmd(16, 5)) \o <<"\n">>
BlankChunk == <<"\r", "\n">>
TwoLinesChunk == PromptChunk \o WriteEchoChunk \o PromptChunk \o ReadEchoChunk
BarePromptChunk == Prompt
UnterminatedChunk == PromptChunk \o Format(WriteCmd(16, 5))
HeadChunk == SubSeq(WriteEchoChunk, 1, 6)
TailChunk == SubSeq(WriteEchoChunk, 7, Len(WriteEchoChunk))

\* what one select! of the loop puts into line_buffer: the text of an echoed
\* command, or the bytes of one serial read
AssemblerChunks ==
    {PromptChunk, ReadEchoChunk, WriteEchoChunk, DumpChunk, BlankChunk, NewPromptChunk,
     TwoLinesChunk, HeadChunk, TailChunk, BarePromptChunk, UnterminatedChunk}

\* src/uart-dap serial_combiner, after data has arrived: a buffer that ends
\* with "\n" is trimmed and handed over as one line, any other is left alone
Arrived_ud(buf) ==
    IF buf # <<>> /\ buf[Len(buf)] = "\n"
    THEN [lines |-> <<Trim(buf)>>, rest |-> <<>>]
    ELSE [lines |-> <<>>, rest |-> buf]

ArrivedOf(v, buf) == IF v = "root" THEN Arrived(buf) ELSE Arrived_ud(buf)

RECURSIVE AfterLine(_, _, _)

\* process_line called with one line after the other, up to the first call
\* that fails
RECURSIVE RunLines(_, _, _)
RunLines(v, st, lines) ==
    IF lines = <<>> THEN Returned("Ok", st, <<>>)
    ELSE AfterLine(v, ProcessLineOf(v, st, Head(lines)), Tail(lines))

\* the loop over the lines after a call of process_line has returned r
AfterLine(v, r, more) ==
    IF r.outcome # "Ok" THEN r
    ELSE LET then == RunLines(v, r.state, more)
         IN  Returned(then.outcome, then.state, r.events \o then.events)

\* the "\n"-terminated segments of s, trimmed
Segments(s) ==
    LET pieces == SplitOn(s, "\n")
    IN  [i \in 1..(Len(pieces) - 1) |-> Trim(pieces[i])]

\* one iteration of the loop: data arrives, the lines are processed, the
\* buffer keeps what the crate leaves in it
IterateOn(source, chunk) ==
    /\ nturns < MaxTurns
    /\ turn.outcome = "Ok"
    /\ \E a \in {ArrivedOf(variant, line_buffer \o chunk)} :
       \E r \in {RunLines(variant, state, a.lines)} :
        LET buf == line_buffer \o chunk
        IN  /\ inbound' = inbound \o chunk
            /\ handed' = handed \o a.lines
            /\ state' = r.state
            /\ line_buffer' = IF r.outcome = "Ok" THEN a.rest ELSE buf
            /\ turn' = [pre |-> state, segments |-> Segments(buf), outcome |-> r.outcome,
                        events |-> r.events, source |-> source, before |-> line_buffer,
                        lines |-> a.lines]
    /\ nturns' = nturns + 1
    /\ UNCHANGED <<pvars, echo, line_ending, result, app, submitted, splitter,
                   command_echo, command_serial, transmitter, wire, combiner, events,
                   delivered, target>>

\* select! yields bytes: an echo of a command or what read_buf has read
Iterate ==
    /\ turn.source # "eof"
    /\ \E chunk \in AssemblerChunks : IterateOn("data", chunk)

\* select! yields a command of the application from command_echo_rx, which
\* command_splitter feeds under Echo::Local: its text and the line ending
\* are appended
IterateEcho ==
    /\ echo = "Local"
    /\ \E c \in AppCmds : IterateOn("echo", EchoText(c, line_ending))

\* select! yields read_buf's Ok(0): the serial stream is at its end, nothing
\* is appended, map_err lets the Ok through and the loop goes on
IterateEof ==
    /\ turn.source # "closed"
    /\ IterateOn("eof", <<>>)

\* select! yields None from command_echo_rx.recv(): the echo queue is closed,
\* ok_or_else makes it the error "channel closed" and the task returns
IterateClosed ==
    /\ nturns < MaxTurns
    /\ turn.outcome = "Ok"
    /\ turn' = [pre |-> state, segments |-> <<>>, outcome |-> "Err", events |-> <<>>,
                source |-> "closed", before |-> line_buffer, lines |-> <<>>]
    /\ nturns' = nturns + 1
    /\ UNCHANGED <<state, pvars, inbound, handed, echo, line_ending, result, app, submitted,
                   splitter, command_echo, command_serial, transmitter, wire, line_buffer,
                   combiner, events, delivered, target>>

InitAssembler ==
    /\ state = WaitForCommand
    /\ variant \in {"root", "ud"}
    /\ last = NoCall
    /\ cycle = NoCycle
    /\ nfed = 0
    /\ rt = NoRoundTrip
    /\ aborted = FALSE
    /\ order = NoOrder
    /\ echo = "Local"
    /\ line_ending = "Lf"
    /\ SessionStart
    /\ AssemblerStart

NextAssembler == Iterate \/ IterateEcho \/ IterateEof \/ IterateClosed

SpecAssembler == InitAssembler /\ [][NextAssembler]_vars

(***************************************************************************)
(* Properties of the assembler (SpecAssembler)                             *)
(***************************************************************************)

\* what follows the last "\n" of s
AfterLastNewline(s) ==
    LET pieces == SplitOn(s, "\n")
    IN  pieces[Len(pieces)]

\* C16 (as claimed): after every iteration of the loop the buffer holds no
\* "\n" and exactly the bytes received after the last "\n"
C16_BufferDrained ==
    turn.outcome = "Ok" =>
        /\ \A i \in 1..Len(line_buffer) : line_buffer[i] # "\n"
        /\ line_buffer = AfterLastNewline(inbound)

\* C17 (as claimed): the lines handed to the parser are the "\n"-terminated
\* segments of the inbound bytes, trimmed, in order and each once, however
\* the bytes were split into reads (lines that are empty after trimming
\* left aside, see C18)
C17_LinesAreSegments ==
    NonEmpty(handed) = NonEmpty(Segments(inbound))

\* C18 (as claimed): lines that are empty after trimming are skipped in
\* every parser state and on both paths of the loop: an iteration whose
\* whole lines are all empty makes no event, leaves the parser state as it
\* was and does not fail
C18_EmptyLineSkipped ==
    (turn.segments # <<>> /\ NonEmpty(turn.segments) = <<>>) =>
        /\ turn.outcome = "Ok"
        /\ turn.events = <<>>
        /\ state = turn.pre

\* C21 (as claimed): an iteration in which a source of the loop has ended
\* (read_buf at the end of the serial stream, or a closed echo queue) ends
\* the task with an error; the loop does not go on
C21_EndedSourceIsFatal ==
    turn.source \in {"eof", "closed"} => turn.outcome = "Err"

(***************************************************************************)
(* Properties of the session (Spec)                                        *)
(***************************************************************************)

\* what the wire holds when every command of cmds has been written
RECURSIVE Expected(_, _)
Expected(cmds, le) ==
    IF cmds = <<>> THEN <<>>
    ELSE Format(Head(cmds)) \o LineEndingText(le) \o Expected(Tail(cmds), le)

\* C1 (as claimed): run never returns Ok while a submitted command is
\* unwritten or only partly written: once run has returned Ok the wire holds
\* one line for every submitted command
C1_NoOkWithUnwritten ==
    result = "Ok" => wire = Expected(submitted, line_ending)

\* C2: the bytes on the wire are a prefix of format(c) + line ending for the
\* submitted commands c in submission order
C2_WireIsPrefix ==
    StartsWith(Expected(submitted, line_ending), wire)

\* two different commands are on the wire, each with its line ending
C2_Witness ==
    /\ Len(submitted) = 2
    /\ submitted[1] # submitted[2]
    /\ line_ending = "CrLf"
    /\ wire = Expected(submitted, line_ending)

IsWrite(x) == x.type = "Write"

\* every submitted command has been through the local echo, and every event
\* it made has been taken
AllEchoed ==
    /\ app.queue = <<>>
    /\ splitter.pc # "echo"
    /\ command_echo = <<>>
    /\ Selecting
    /\ events = <<>>

\* C4 (as claimed): at most one Write event is delivered per submitted
\* Write, and under Echo::Local, once the echo of every submitted command
\* has been handled, exactly one with the same addr and data
C4_OneWriteEventPerWrite ==
    LET got == SelectSeq(delivered, IsWrite)
        sent == SelectSeq(submitted, IsWrite)
    IN  /\ Len(got) <= Len(sent)
        /\ (echo = "Local" /\ Running /\ AllEchoed) =>
              got = [i \in 1..Len(sent) |-> WriteEvent(sent[i].addr, sent[i].arg)]

\* the Write events that answer the Write commands of cmds, in order
WriteEventsOf(cmds) ==
    LET writes == SelectSeq(cmds, IsWrite)
    IN  [i \in 1..Len(writes) |-> WriteEventOf(writes[i])]

\* C15 (as claimed): under Echo::Local the Write events delivered are those
\* of the submitted Write commands, in submission order: at any time the
\* first of them, none skipped, and all of them once every echo has been
\* handled
C15_WritesInSubmissionOrder ==
    echo = "Local" =>
        LET got == SelectSeq(delivered \o events, IsWrite)
        IN  /\ StartsWith(WriteEventsOf(submitted), got)
            /\ (Running /\ AllEchoed) => got = WriteEventsOf(submitted)

\* C19: once run has returned, its result stays, no byte is written to the
\* wire and no event is put into the event sink; run returns Ok only when
\* command_splitter has found its input closed, any other end is an error
C19_FirstTerminatorIsResult ==
    [][ /\ result # "running" =>
              /\ result' = result
              /\ wire' = wire
              /\ delivered' \o events' = delivered \o events
        /\ (result = "running" /\ result' = "Ok") =>
              (splitter.pc = "recv" /\ app.queue = <<>> /\ app.closed)
        /\ (result = "running" /\ result' # "running" /\ ~app.closed) => result' = "Err"
      ]_vars

\* run has returned an error while the line ending of a command was still
\* to be written and an event was still in the event channel
C19_Witness ==
    /\ result = "Err"
    /\ transmitter.pc = "write_le"
    /\ events # <<>>


Received == SubSeq(submitted, 1, Len(submitted) - Len(app.queue))

\* the sends the claim asks of command_splitter for the commands cmds
RECURSIVE Plan(_, _)
Plan(e, cmds) ==
    IF cmds = <<>> THEN <<>>
    ELSE (IF e = "Local" THEN <<Sent("echo", Head(cmds))>> ELSE <<>>)
         \o <<Sent("serial", Head(cmds))>> \o Plan(e, Tail(cmds))

\* C22: the sends of command_splitter are, for the commands received in
\* their order, echo queue then serial queue under Echo::Local and serial
\* queue alone under Echo::Remote, each once; under Echo::Remote the echo
\* queue stays empty and the line buffer grows only by a read of the serial
\* port
C22_SplitterForwardsInOrder ==
    /\ [](/\ StartsWith(Plan(echo, Received), splitter.log)
          /\ splitter.pc = "recv" => splitter.log = Plan(echo, Received)
          /\ splitter.pc = "serial" => Len(splitter.log) = Len(Plan(echo, Received)) - 1
          /\ echo = "Remote" => command_echo = <<>>)
    /\ [][(echo = "Remote" /\ Len(line_buffer') > Len(line_buffer)) => target' # target]_vars

\* under Echo::Local the second command has been put on the echo queue and
\* not yet on the serial queue
C22_Witness ==
    /\ echo = "Local"
    /\ splitter.pc = "serial"
    /\ Len(splitter.log) = 3

(***************************************************************************)
(* Properties of the parser runs (SpecParser)                              *)
(***************************************************************************)

CeilDiv(n, d) == (n + d - 1) \div d

\* the last call was made in WaitForCommand with the prompt followed by
\* the text of a command of the given type
PromptedCommand(type) ==
    /\ last.pre.tag = "WaitForCommand"
    /\ last.input.kind = "echo"
    /\ last.input.prefix = "prompt"
    /\ last.input.cmd.type = type

\* C3 (as claimed): each full group of 4 byte tokens b0 b1 b2 b3 of a
\* response line becomes a Read event with data b0 | b1<<8 | b2<<16 | b3<<24
C3_LittleEndianWords ==
    (last.pre.tag = "WaitForResponse" /\ last.input.kind = "dump") =>
        /\ last.outcome = "Ok"
        /\ \A k \in 1..(Len(last.input.bytes) \div 4) :
            /\ k <= Len(last.events)
            /\ last.events[k].type = "Read"
            /\ last.events[k].data =
                   last.input.bytes[4 * k - 3]
                   + 256 * last.input.bytes[4 * k - 2]
                   + 65536 * last.input.bytes[4 * k - 1]
                   + 16777216 * last.input.bytes[4 * k]

\* C5: a read of n bytes at a whose response came as ceil(n/16) hex-dump
\* lines carrying 16 bytes each and the remainder on the last has produced
\* exactly ceil(n/4) Read events, at a, a+4, ..., in this order
C5_ReadEventCount ==
    (/\ cycle.phase # "none"
     /\ cycle.exact
     /\ cycle.fed = CeilDiv(cycle.cmd.arg, 16)) =>
        /\ Len(cycle.events) = CeilDiv(cycle.cmd.arg, 4)
        /\ \A i \in 1..Len(cycle.events) :
            /\ cycle.events[i].type = "Read"
            /\ cycle.events[i].addr = cycle.cmd.addr + 4 * (i - 1)

\* the two-line response of the integration test: 20 bytes, 5 events
C5_Witness ==
    /\ variant = "root"
    /\ cycle.exact
    /\ cycle.cmd = ReadCmd(1611526157, 20)
    /\ cycle.fed = 2
    /\ Len(cycle.events) = 5

\* C6: "DEBUG> " + format(c) + line ending tokenizes to the prompt followed
\* by tokens that the command grammar maps back to c
C6_FramingRoundTrip ==
    rt.done => (rt.first = Prompt /\ rt.parsed = Some(rt.cmd))

C6_Witness ==
    /\ rt.done
    /\ rt.cmd = ReadCmd(1611526157, 4095)
    /\ rt.parsed.some

\* the state of the parser while line k (0-based) of the response to cmd is
\* awaited
AwaitingLine(cmd, k) ==
    /\ state.tag = "WaitForResponse"
    /\ state.command = ReadCmd(cmd.addr + 16 * k, cmd.arg - 16 * k)

\* after a matched read, as long as hex-dump lines follow: the parser awaits
\* line k relative to addr + 16k until `need` lines have come, and is in
\* WaitForCommand right after the last of them
ResponseTakes(need) ==
    (cycle.phase # "none" /\ cycle.wf) =>
        /\ last.outcome = "Ok"
        /\ cycle.fed <= need
        /\ cycle.fed < need => (cycle.phase = "open" /\ AwaitingLine(cycle.cmd, cycle.fed))
        /\ cycle.fed = need => (cycle.phase = "closed" /\ state = WaitForCommand)

\* C7 (as claimed): the response to a read of nbytes takes exactly
\* ceil(nbytes/16) lines, for every nbytes, 0 included
C7_ExactlyCeilLines == ResponseTakes(CeilDiv(cycle.cmd.arg, 16))

\* C7 (amended): the response takes ceil(nbytes/16) lines, and one line
\* when nbytes = 0
C7_AtLeastOneLine ==
    ResponseTakes(IF cycle.cmd.arg = 0 THEN 1 ELSE CeilDiv(cycle.cmd.arg, 16))

\* a read of 0 bytes has consumed one line
C7_Witness ==
    /\ cycle.phase = "closed"
    /\ cycle.wf
    /\ cycle.cmd.arg = 0
    /\ cycle.fed = 1
    /\ state = WaitForCommand

\* C8 (as claimed): a prompt-prefixed read line in WaitForCommand emits
\* nothing, never fails, and leaves the parser waiting for ceil(nbytes/16)
\* lines of that read
C8_ReadMatchNeverFails ==
    PromptedCommand("Read") =>
        /\ last.outcome = "Ok"
        /\ last.events = <<>>
        /\ state.tag = "WaitForResponse"
        /\ state.command = last.input.cmd
        /\ variant = "ud" => state.lines = CeilDiv(last.input.cmd.arg, 16)

\* C9: a prompt-prefixed "mw kernel <addr> <data>" line in WaitForCommand
\* emits exactly one Write event with that addr and data and leaves the
\* parser in WaitForCommand
C9_WriteLineOneEvent ==
    PromptedCommand("Write") =>
        /\ last.outcome = "Ok"
        /\ last.events = <<WriteEvent(last.input.cmd.addr, last.input.cmd.arg)>>
        /\ state = WaitForCommand

\* a write typed in decimal and binary
C9_Witness ==
    /\ PromptedCommand("Write")
    /\ last.input.cmd = WriteCmd(16, 5)
    /\ last.events = <<WriteEvent(16, 5)>>

\* the fed line does not start with the prompt token, or what follows the
\* prompt is no command
Unmatched(input) ==
    \/ input.kind \in {"dump", "other"}
    \/ input.kind = "echo" /\ input.prefix # "prompt"

\* C10 (as claimed): in WaitForCommand a line that does not start with the
\* prompt, or matches no command, or has no token at all, emits nothing,
\* leaves the parser in WaitForCommand and does not fail the session
C10_UnmatchedLineIgnored ==
    (last.pre.tag = "WaitForCommand" /\ Unmatched(last.input)) =>
        /\ last.outcome = "Ok"
        /\ last.events = <<>>
        /\ state = WaitForCommand

\* C11 (as claimed): in WaitForResponse a line with no " |", or with no
\* ": " before its first " |", gives up the response: no event, no error,
\* the parser is in WaitForCommand, and a valid Write echo line right after
\* it makes its Write event
C11_UnframedResponseAborts ==
    /\ GaveUp =>
          /\ last.outcome = "Ok"
          /\ last.events = <<>>
          /\ state = WaitForCommand
    /\ (aborted /\ PromptedCommand("Write")) =>
          /\ last.outcome = "Ok"
          /\ last.events = <<WriteEvent(last.input.cmd.addr, last.input.cmd.arg)>>

\* a token of 1 or 2 hex digits
IsByteToken(token) ==
    /\ Len(token) \in {1, 2}
    /\ \A i \in 1..Len(token) : ToDigit(token[i], 16) >= 0

\* the line is framed as a response and a token of its byte segment is no
\* 8-bit hex value
HasBadByteToken(line) ==
    LET gutter == SplitOnce(line, <<" ", "|">>)
        colon  == SplitOnce(gutter.before, <<":", " ">>)
        tokens == SplitAsciiWhitespace(colon.after)
    IN  /\ gutter.found
        /\ colon.found
        /\ \E i \in 1..Len(tokens) : ~IsByteToken(tokens[i])

\* C12 (as claimed): in WaitForResponse a framed line with a byte token that
\* is not 1 or 2 hex digits ends the session with an error and makes no
\* Read event
C12_BadByteTokenFails ==
    (last.pre.tag = "WaitForResponse" /\ HasBadByteToken(last.input.text)) =>
        /\ last.outcome = "Err"
        /\ last.events = <<>>

\* the last call was made in WaitForResponse with a hex-dump line
DumpInResponse == last.pre.tag = "WaitForResponse" /\ last.input.kind = "dump"

C14_AscendingAddresses ==
    /\ order.asc
    /\ last.pre.tag = "WaitForResponse" => Ascends(-1, last.events)

\* the second line of a response has made its event above those of the first
C14_Witness ==
    /\ cycle.cmd = ReadCmd(16, 20)
    /\ cycle.fed = 2
    /\ Len(last.events) = 1
    /\ order.hi = 32
    /\ order.asc

\* C25 (as claimed): a line processed in WaitForResponse makes at most 4 Read
\* events, each at an address of the range the Read being answered asks for,
\* [addr, addr + nbytes) rounded up to a word
C25_LineWithinRequest ==
    (last # NoCall /\ last.pre.tag = "WaitForResponse") =>
        /\ Len(last.events) <= 4
        /\ \A i \in 1..Len(last.events) :
              /\ last.events[i].addr >= cycle.cmd.addr
              /\ last.events[i].addr < cycle.cmd.addr + 4 * NChunks(cycle.cmd.arg)

\* the last call was made in WaitForResponse with a command line after the
\* prompt, as the target echoes it
CommandInResponse ==
    /\ last # NoCall
    /\ last.pre.tag = "WaitForResponse"
    /\ last.input.kind = "echo"
    /\ last.input.prefix = "prompt"

\* C29: a 'mw kernel' or 'mr kernel' line after the prompt that arrives in
\* WaitForResponse is taken as a response line: the call returns Ok, there
\* is no event, and the parser is in WaitForCommand, the pending read given
\* up and no read put in its place
C29_NoCommandInResponse ==
    CommandInResponse =>
        /\ last.outcome = "Ok"
        /\ last.events = <<>>
        /\ state = WaitForCommand

\* a Read line has arrived in WaitForResponse while lines of a read were due
C29_Witness ==
    /\ CommandInResponse
    /\ last.input.cmd.type = "Read"
    /\ last.pre.command.arg > MAX_BYTES_PER_LINE

(***************************************************************************)
(* More properties of the assembler (SpecAssembler)                        *)
(***************************************************************************)

\* t is the prompt token and whitespace: "DEBUG>" and at least the
\* whitespace that ends the token
PromptTail(t) ==
    /\ SplitAsciiWhitespace(t) = <<Prompt>>
    /\ IsWs(t[Len(t)])

\* the last iteration has made a Write event or moved the parser from
\* WaitForCommand to WaitForResponse
TookCommand ==
    \/ \E i \in 1..Len(turn.events) : turn.events[i].type = "Write"
    \/ (turn.pre.tag = "WaitForCommand" /\ state.tag = "WaitForResponse")

\* C28 (as claimed): in src/src/lib.rs an injected command makes a Write
\* event or moves the parser to WaitForResponse exactly when the parser is
\* in WaitForCommand and the unterminated bytes the buffer held at the
\* injection are made of the token "DEBUG>" and of whitespace, if any
C28_EchoAfterPromptToken ==
    (variant = "root" /\ turn.source = "echo") =>
        (TookCommand <=>
            (/\ turn.pre.tag = "WaitForCommand"
             /\ SplitAsciiWhitespace(AfterLastNewline(turn.before)) = <<Prompt>>))

\* C28 (amended): ... exactly when the parser is in WaitForCommand and the
\* unterminated bytes are the token "DEBUG>" followed by at least one
\* whitespace character, with nothing but whitespace before it
C28_EchoNeedsPromptTail ==
    (variant = "root" /\ turn.source = "echo") =>
        (TookCommand <=>
            (turn.pre.tag = "WaitForCommand" /\ PromptTail(AfterLastNewline(turn.before))))

\* a command was injected after "DEBUG> " and was taken
C28_Witness ==
    /\ variant = "root"
    /\ turn.source = "echo"
    /\ turn.before = PromptChunk
    /\ TookCommand

\* every event of the lines is a Read event if its line was processed in
\* WaitForResponse and a Write event if it was processed in WaitForCommand
RECURSIVE KindsFollowState(_, _, _)
KindsFollowState(v, st, lines) ==
    \/ lines = <<>>
    \/ \E r \in {ProcessLineOf(v, st, Head(lines))} :
         /\ \A i \in 1..Len(r.events) :
                r.events[i].type =
                    IF st.tag = "WaitForResponse" THEN "Read" ELSE "Write"
         /\ (r.outcome = "Ok" => KindsFollowState(v, r.state, Tail(lines)))

\* C30: in src/src/lib.rs Read events are made only by lines processed in
\* WaitForResponse and Write events only by lines processed in
\* WaitForCommand, and an iteration in which the buffer holds no
\* "\n"-terminated line makes no event and leaves the parser state alone
C30_EventsFollowLines ==
    variant = "root" =>
        /\ KindsFollowState(variant, turn.pre, turn.lines)
        /\ turn.segments = <<>> => (turn.events = <<>> /\ state = turn.pre)

\* an iteration over a "\n"-terminated line has made a Read event
C30_Witness ==
    /\ variant = "root"
    /\ \E i \in 1..Len(turn.events) : turn.events[i].type = "Read"
    /\ turn.segments # <<>>

(***************************************************************************)
(* The target simulator (examples/server.rs)                               *)
(***************************************************************************)

\* prompt(Os::Integrity)
ServerPrompt == <<"D", "E", "B", "U", "G", ">", " ">>

\* format!("Modeling {}", os) for Os::Integrity
ServerBanner ==
    <<"M", "o", "d", "e", "l", "i", "n", "g", " ",
      "I", "n", "t", "e", "g", "r", "i", "t", "y">>

\* transmit_line: the message and the line ending, in one write
transmit_line(le, msg) == msg \o LineEndingText(le)

\* div_ceil of the simulator
ServerDivCeil(lhs, rhs) == (lhs + rhs - 1) \div rhs

\* BigEndian::write_u32
BigEndianBytes(dword) ==
    <<dword \div 16777216, (dword \div 65536) % 256, (dword \div 256) % 256, dword % 256>>

\* the dwords a read is answered with: state.mem.get(&dword_addr) or, for an
\* address never written, state.rng.gen::<u32>(); mem is a function from
\* addresses to dwords that stands for both
ServerDwordsRead(mem, addr, nbytes) ==
    [i \in 1..ServerDivCeil(nbytes, 4) |-> mem[addr + (i - 1)]]

\* .map(|byte| format!("{byte:x}")).collect::<Vec<String>>().join(" ")
RECURSIVE JoinBytes(_)
JoinBytes(bytes) ==
    IF bytes = <<>> THEN <<>>
    ELSE IF Len(bytes) = 1 THEN FormatRadix(bytes[1], 16)
    ELSE FormatRadix(bytes[1], 16) \o <<" ">> \o JoinBytes(Tail(bytes))

\* process_read_request: one message with the bytes of all the dwords
process_read_request(mem, addr, nbytes) ==
    LET dwords == ServerDwordsRead(mem, addr, nbytes)
        bytes == Concat([i \in 1..Len(dwords) |-> BigEndianBytes(dwords[i])])
    IN  FormatRadix(addr, 16) \o <<":", " ">> \o JoinBytes(bytes)
        \o <<" ", "|", "-", "-", "-", "-", "-", "-", "-", "-", "|">>

\* Action::None, Action::Respond(rsp)
ActionNone == [respond |-> FALSE, rsp |-> <<>>]
Respond(rsp) == [respond |-> TRUE, rsp |-> rsp]

\* process_request, for the requests the driver frames: the arms of
\* "mw kernel <addr> <data>", "mr kernel <addr> <nbytes>", "mr kernel <addr>"
\* (the patterns and parse_based_int are those of Command::from_tokens) and
\* the last arm
process_request(mem, req) ==
    LET parsed == from_tokens(SplitAsciiWhitespace(req))
    IN  IF ~parsed.some THEN Respond(<<>>)
        ELSE IF parsed.command.type = "Write" THEN ActionNone
        ELSE Respond(process_read_request(mem, parsed.command.addr, parsed.command.arg))

\* listen, for one line of the reader: the echo if asked for, the response
\* line if there is one, the prompt
ServerAnswer(mem, server_echo, le, msg) ==
    LET action == process_request(mem, msg)
    IN  (IF server_echo THEN transmit_line(le, msg) ELSE <<>>)
        \o (IF action.respond THEN transmit_line(le, action.rsp) ELSE <<>>)
        \o ServerPrompt

\* listen, before its loop: the banner line and the prompt
ServerHello(le) == transmit_line(le, ServerBanner) \o ServerPrompt

(***************************************************************************)
(* The driver's parser fed by the simulator (SpecServer): the simulator    *)
(* runs with --echo, the driver with Echo::Remote, and the driver reads    *)
(* what the simulator sends for one line in one read                       *)
(***************************************************************************)

\* the requests the driver sends
ServerNBytes == {0, 1, 4, 16, 17, 20, 32}
ServerCmds == {ReadCmd(16, n) : n \in ServerNBytes} \cup {WriteCmd(16, 5)}

\* the memory the simulator answers from: every dword 0x01020304, or every
\* dword 0x7f00100a
ServerDwords == {16909060, 2130710538}
ServerMems == {[a \in 0..63 |-> d] : d \in ServerDwords}

InitServer ==
    /\ state = WaitForCommand
    /\ variant = "root"
    /\ last = NoCall
    /\ cycle = NoCycle
    /\ nfed = 0
    /\ rt = NoRoundTrip
    /\ aborted = FALSE
    /\ order = NoOrder
    /\ echo = "Remote"
    /\ line_ending \in {"Lf", "CrLf"}
    /\ SessionStart
    /\ AssemblerStart

\* the driver reads the banner and the first prompt
ReadHello ==
    /\ turn.source = "none"
    /\ IterateOn("hello", ServerHello(line_ending))

\* the driver reads what the simulator sends for one request
ReadAnswer ==
    /\ turn.source # "none"
    /\ \E c \in ServerCmds, mem \in ServerMems :
        IterateOn("server", ServerAnswer(mem, TRUE, line_ending, Format(c)))

NextServer == ReadHello \/ ReadAnswer

SpecServer == InitServer /\ [][NextServer]_vars

\* the request whose echo is the first line the last iteration processed
ServedRequest == from_tokens(Tail(SplitAsciiWhitespace(turn.lines[1])))

\* the number of byte tokens on a hex-dump line
DumpBytesOn(line) ==
    Len(SplitAsciiWhitespace(SplitOnce(SplitOnce(line, <<":", " ">>).after, <<" ", "|">>).before))

\* the last iteration read the simulator's answer to a Read that the parser
\* took in WaitForCommand
ServedRead ==
    /\ turn.source = "server"
    /\ turn.pre.tag = "WaitForCommand"
    /\ ServedRequest.some
    /\ ServedRequest.command.type = "Read"

\* C26: the simulator answers a Read of nbytes bytes with exactly
\* ceil(nbytes/16) hex-dump lines of at most 16 bytes each, and the parser of
\* src/src/lib.rs that has followed them is in WaitForCommand when the next
\* prompt is in its buffer
C26_ServerLinesPerRead ==
    ServedRead =>
        /\ Len(turn.lines) - 1 = CeilDiv(ServedRequest.command.arg, 16)
        /\ \A i \in 2..Len(turn.lines) : DumpBytesOn(turn.lines[i]) <= 16
        /\ line_buffer = ServerPrompt
        /\ state.tag = "WaitForCommand"

(***************************************************************************)
(* The session against the simulator (SpecExchange): run and its three     *)
(* tasks on one end of the serial line, listen of examples/server.rs on    *)
(* the other, started with --echo when the driver runs with Echo::Remote.  *)
(* No component fails and the application keeps its sender.                *)
(***************************************************************************)

\* the number of commands the application sends
MaxExchange == 2

\* the commands the application sends: a write, and a read whose response
\* line makes two events
ExchangeCmds == {WriteCmd(16, 5), ReadCmd(16, 8)}

\* the memory of the simulator: every dword 0x01020304
ExchangeMem == [a \in 0..63 |-> 16909060]

\* LinesCodec::decode: the bytes up to the first "\n", without it and
\* without a "\r" before it, and the number of bytes used
LinesCodecDecode(buf) ==
    LET i == Find(buf, <<"\n">>, 1)
    IN  IF i = 0 THEN [found |-> FALSE, line |-> <<>>, used |-> 0]
        ELSE [found |-> TRUE,
              line  |-> IF i > 1 /\ buf[i - 1] = "\r"
                        THEN SubSeq(buf, 1, i - 2) ELSE SubSeq(buf, 1, i - 1),
              used  |-> i]

\* the application sends a command
ExchangeSubmit ==
    /\ Running
    /\ Len(app.queue) < AppCapacity
    /\ Len(submitted) < MaxExchange
    /\ \E c \in ExchangeCmds :
        /\ app' = [app EXCEPT !.queue = Append(@, c)]
        /\ submitted' = Append(submitted, c)
    /\ UNCHANGED <<state, pvars, avars, echo, line_ending, result, splitter, command_echo,
                   command_serial, transmitter, wire, line_buffer, combiner, events,
                   delivered, target>>

\* listen: the banner line and the prompt are transmitted
TargetHello ==
    /\ ~target.up
    /\ target' = [target EXCEPT !.up = TRUE, !.out = ServerHello(line_ending)]
    /\ UNCHANGED <<state, pvars, avars, echo, line_ending, result, app, submitted, splitter,
                   command_echo, command_serial, transmitter, wire, line_buffer,
                   combiner, events, delivered>>

\* listen: reader.next() yields a line of the wire, which is answered
TargetServe ==
    /\ target.up
    /\ \E d \in {LinesCodecDecode(SubSeq(wire, target.taken + 1, Len(wire)))} :
        /\ d.found
        /\ target' = [target EXCEPT
                        !.taken = @ + d.used,
                        !.served = @ + 1,
                        !.out = @ \o ServerAnswer(ExchangeMem, echo = "Remote",
                                                  line_ending, d.line)]
    /\ UNCHANGED <<state, pvars, avars, echo, line_ending, result, app, submitted, splitter,
                   command_echo, command_serial, transmitter, wire, line_buffer,
                   combiner, events, delivered>>

\* serial_combiner: read_buf yields what the simulator has sent
CombReadTarget ==
    /\ Running
    /\ Selecting
    /\ target.out # <<>>
    /\ Arrive(line_buffer \o target.out)
    /\ target' = [target EXCEPT !.out = <<>>]
    /\ UNCHANGED <<state, pvars, avars, echo, line_ending, result, app, submitted, splitter,
                   command_echo, command_serial, transmitter, wire, events, delivered>>

NextExchange ==
    \/ ExchangeSubmit \/ EventRecv
    \/ SplitterRecv \/ SplitterSendEcho \/ SplitterSendSerial
    \/ TxRecv \/ TxWrite
    \/ TargetHello \/ TargetServe
    \/ CombRecvEcho \/ CombReadTarget \/ CombLine \/ CombSend

SpecExchange == Init /\ [][NextExchange]_vars

(***************************************************************************)
(* Properties of the session against the simulator (SpecExchange)          *)
(***************************************************************************)

\* the number of sends of command_splitter on a queue
SentOn(queue) == Cardinality({i \in 1..Len(splitter.log) : splitter.log[i].to = queue})

\* the number of commands serial_combiner has received from command_echo
EchoesReceived == SentOn("echo") - Len(command_echo)

\* the number of commands serial_transmitter has received: the command it
\* is writing, or has written last, is the one of this number
TxTaken == SentOn("serial") - Len(command_serial)

\* nothing is left to do: every command was sent and answered, everything
\* the simulator sent was read and processed, every event was taken
Quiescent ==
    /\ Len(submitted) = MaxExchange
    /\ app.queue = <<>> /\ splitter.pc = "recv"
    /\ command_echo = <<>> /\ command_serial = <<>>
    /\ transmitter.pc = "recv"
    /\ target.up /\ target.taken = Len(wire) /\ target.out = <<>>
    /\ Selecting
    /\ events = <<>>

\* what a simulator started with --echo sends for the commands
RECURSIVE EchoedAnswers(_, _)
EchoedAnswers(le, cmds) ==
    IF cmds = <<>> THEN <<>>
    ELSE ServerAnswer(ExchangeMem, TRUE, le, Format(Head(cmds)))
         \o EchoedAnswers(le, Tail(cmds))

\* the events process_line makes of what a simulator started with --echo
\* sends for the commands: what Echo::Remote delivers
RemoteEvents(le, cmds) ==
    RunLines("root", WaitForCommand,
             Segments(ServerHello(le) \o EchoedAnswers(le, cmds))).events

\* C23: whatever the echo mode, once the commands are answered the
\* application has been delivered the events that Echo::Remote makes of a
\* simulator that echoes each command line after its prompt
C23_EchoModesAgree ==
    Quiescent => delivered = RemoteEvents(line_ending, submitted)

\* process_line waits in event_tx.send: the event channel is full
ParserBlocked == combiner.pending # <<>> /\ Len(events) = EventCapacity

\* the number of the last command the parser can be answering: the last one
\* whose echo serial_combiner has received (Echo::Local) or the simulator
\* has echoed (Echo::Remote)
AnsweredUpTo == IF echo = "Local" THEN EchoesReceived ELSE target.served

\* C24: while process_line waits in event_tx.send on the full event
\* channel, no byte of a command submitted after the one being answered is
\* written to the serial port, and the events of the line are sent one by
\* one, none left out
C24_BackPressure ==
    /\ [][(ParserBlocked /\ wire' # wire) => TxTaken <= AnsweredUpTo]_vars
    /\ [][(combiner.pending # <<>> /\ combiner'.pending # combiner.pending) =>
            /\ events' = Append(events, Head(combiner.pending))
            /\ combiner'.pending = Tail(combiner.pending)]_vars

\* a line process_line takes for a response line
IsDumpLine(line) ==
    LET first == SplitOnce(line, <<":", " ">>)
    IN  first.found /\ SplitOnce(first.after, <<" ", "|">>).found

\* C27: under Echo::Local, when serial_combiner reads the simulator's
\* response to a Read it has received the echo of that Read before, and it
\* never hands a response line to a parser in WaitForCommand
C27_EchoBeforeResponse ==
    /\ [][(echo = "Local" /\ target.out # <<>> /\ target'.out = <<>>) =>
            \A j \in 1..target.served :
                submitted[j].type = "Read" => j <= EchoesReceived]_vars
    /\ [](echo = "Local" =>
            ~(/\ combiner.lines # <<>> /\ combiner.pending = <<>>
              /\ state.tag = "WaitForCommand"
              /\ IsDumpLine(Head(combiner.lines))))

(***************************************************************************)
(* The session in which no component fails and the application keeps its   *)
(* sender (SpecOpen): command_splitter never sees its channel closed, so   *)
(* run does not return, and the three tasks go on under the scheduling of  *)
(* the tokio runtime                                                       *)
(***************************************************************************)

NextOpen ==
    \/ AppSubmit \/ EventRecv
    \/ SplitterRecv \/ SplitterSendEcho \/ SplitterSendSerial
    \/ TxRecv \/ TxWrite
    \/ CombRecvEcho \/ CombRead \/ CombReadEcho \/ CombLine \/ CombSend

\* a task that can make progress is polled again, the serial port accepts
\* what is written to it (TxWrite), the application takes the events it is
\* sent (EventRecv); CombLine and CombRecvEcho as in Fairness
FairnessOpen ==
    /\ WF_vars(SplitterRecv)
    /\ WF_vars(SplitterSendEcho) /\ WF_vars(SplitterSendSerial)
    /\ WF_vars(TxRecv) /\ WF_vars(TxWrite)
    /\ WF_vars(CombSend)
    /\ []<>(~CombLineReady) /\ []<>(~EchoReady)
    /\ WF_vars(EventRecv)

SpecOpen == Init /\ [][NextOpen]_vars /\ FairnessOpen

\* the first k submitted commands are on the wire, each with its line ending
WrittenUpTo(k) ==
    /\ Len(submitted) >= k
    /\ StartsWith(wire, Expected(SubSeq(submitted, 1, k), line_ending))

====
